---- MODULE Spec2Model ----
(***************************************************************************)
(* Line Select: Outwards/Inwards (Up/Down).                                *)
(*                                                                         *)
(* A model of the four line-selection commands outwardsUp, inwardsUp,      *)
(* outwardsDown and inwardsDown, of the helpers they are built from        *)
(* (posLineStart, posEndForExclusiveLine, hasPartialLineSelection,         *)
(* fullLineRange, buildSelection, clamp) and of the editor state they read *)
(* and replace.  The model follows the revision of the extension that      *)
(* classifies selections with hasPartialLineSelection.                     *)
(*                                                                         *)
(* A document is the sequence of its lines' text lengths: the commands     *)
(* read nothing of a line but lineCount and lineAt(n).text.length.  Lines  *)
(* are numbered from 0 as in the editor, so line n is doc[n + 1].          *)
(***************************************************************************)
EXTENDS Integers, Sequences, FiniteSets, TLC

\* Bounds of the single-cursor specification.
MaxLines == 3
MaxLen == 2

\* Bounds of the multi-cursor specification.
MaxCursors == 2
MultiLines == 1
MultiLen == 2

\* Bounds of the specification of malformed input: documents of no line at
\* all, positions one line past the document and one column past the text.
HostileLines == 2
HostileLen == 1

VARIABLES
    doc,         \* editor.document: the text length of each line
    selections,  \* editor.selections: a sequence of [anchor, active]
    prev,        \* editor.selections as the last command read them
    cmd,         \* the last command dispatched, "none" before the first
    orig,        \* editor.selections before the current run of equal commands
    stage,       \* progress through outwardsDown, outwardsDown, inwardsUp, inwardsUp
    scenL,       \* the caret line that sequence started from
    runLen,      \* the length of the current run of equal commands, up to MaxRun(doc)
    threw        \* whether the last command ended in an exception

vars == <<doc, selections, prev, cmd, orig, stage, scenL, runLen, threw>>

----------------------------------------------------------------------------
(* Host values: vscode.Position, vscode.Selection, vscode.TextDocument.    *)

Max(a, b) == IF a >= b THEN a ELSE b

Min(a, b) == IF a <= b THEN a ELSE b

Position(line, character) == [line |-> line, character |-> character]

Selection(anchor, active) == [anchor |-> anchor, active |-> active]

lineCount(d) == Len(d)

\* doc.lineAt(n).text.length
lineLength(d, n) == d[n + 1]

\* doc.lineAt(n).range.end
lineEnd(d, n) == Position(n, lineLength(d, n))

isBefore(p, q) ==
    \/ p.line < q.line
    \/ p.line = q.line /\ p.character < q.character

\* sel.isEmpty
isEmpty(sel) == sel.anchor = sel.active

\* sel.start / sel.end: the earlier and the later of anchor and active
selStart(sel) == IF isBefore(sel.active, sel.anchor) THEN sel.active ELSE sel.anchor

selEnd(sel) == IF isBefore(sel.active, sel.anchor) THEN sel.anchor ELSE sel.active

\* const pMin / const pMax as every helper computes them
pMinOf(sel) == IF isBefore(selStart(sel), selEnd(sel)) THEN selStart(sel) ELSE selEnd(sel)

pMaxOf(sel) == IF isBefore(selStart(sel), selEnd(sel)) THEN selEnd(sel) ELSE selStart(sel)

----------------------------------------------------------------------------
(* Helpers *)

\* A variant of posEndForExclusiveLine that takes the line after the last
\* one for a line of the document.
posEndForExclusiveLine_PastLastLine(d, exclLine) ==
    IF exclLine <= lineCount(d)
    THEN Position(exclLine, 0)
    ELSE lineEnd(d, lineCount(d) - 1)

posLineStart(d, line) ==
    LET clamped == Max(0, Min(line, lineCount(d) - 1))
    IN  Position(clamped, 0)

posEndForExclusiveLine(d, exclLine) ==
    IF exclLine < lineCount(d)
    THEN Position(exclLine, 0)
    ELSE lineEnd(d, lineCount(d) - 1)

hasPartialLineSelection(sel, d) ==
    LET pMin == pMinOf(sel)
        pMax == pMaxOf(sel)
    IN  IF isEmpty(sel) THEN FALSE
        ELSE IF pMin.character # 0 THEN TRUE
        ELSE IF pMin.line = pMax.line
             THEN pMax.character < lineLength(d, pMin.line)
        ELSE pMax.character # 0

\* A variant of fullLineRange that counts the line pMax sits on into a
\* full-line selection's range.
fullLineRange_BottomInclusive(sel, d) ==
    LET pMin == pMinOf(sel)
        pMax == pMaxOf(sel)
    IN  IF isEmpty(sel)
        THEN <<sel.active.line, Min(sel.active.line + 1, lineCount(d))>>
        ELSE IF hasPartialLineSelection(sel, d)
        THEN <<pMin.line, (IF pMax.character = 0 THEN pMax.line - 1 ELSE pMax.line) + 1>>
        ELSE <<pMin.line, pMax.line + 1>>

\* [topInclusiveLine, bottomExclusiveLine]
fullLineRange(sel, d) ==
    LET pMin == pMinOf(sel)
        pMax == pMaxOf(sel)
    IN  IF isEmpty(sel)
        THEN LET L == sel.active.line
             IN  <<L, Min(L + 1, lineCount(d))>>
        ELSE IF hasPartialLineSelection(sel, d)
        THEN LET topLine == pMin.line
                 bottomLine == pMax.line
                 actualBottomLine ==
                     IF pMax.character = 0 THEN bottomLine - 1 ELSE bottomLine
             IN  <<topLine, actualBottomLine + 1>>
        ELSE LET top == pMin.line
                 bottomExclusive == pMax.line
             IN  <<top, bottomExclusive>>

\* A variant of buildSelection that always anchors at the start.
buildSelection_AnchorAtStart(d, top, bottomExclusive, anchorAtEnd) ==
    Selection(posLineStart(d, top), posEndForExclusiveLine(d, bottomExclusive))

buildSelection(d, top, bottomExclusive, anchorAtEnd) ==
    LET startPos == posLineStart(d, top)
        endPos == posEndForExclusiveLine(d, bottomExclusive)
    IN  IF anchorAtEnd
        THEN Selection(endPos, startPos)
        ELSE Selection(startPos, endPos)

clamp(n, lo, hi) == Max(lo, Min(hi, n))

----------------------------------------------------------------------------
(* Commands: the function each command maps over editor.selections. *)

\* A variant of outwardsDownSel that steps a partial selection as well.
outwardsDownSel_SnapAndStep(sel, d) ==
    IF isEmpty(sel)
    THEN buildSelection(d, sel.active.line, sel.active.line + 1, FALSE)
    ELSE LET r == fullLineRange(sel, d)
         IN  buildSelection(d, r[1], IF r[2] < lineCount(d) THEN r[2] + 1 ELSE r[2], FALSE)

outwardsDownSel(sel, d) ==
    IF isEmpty(sel)
    THEN LET L == sel.active.line
         IN  buildSelection(d, L, L + 1, FALSE)
    ELSE IF hasPartialLineSelection(sel, d)
    THEN LET r == fullLineRange(sel, d)
         IN  buildSelection(d, r[1], r[2], FALSE)
    ELSE LET r == fullLineRange(sel, d)
             top == r[1]
             botEx == IF r[2] < lineCount(d) THEN r[2] + 1 ELSE r[2]
         IN  buildSelection(d, top, botEx, FALSE)

\* A variant of inwardsDownSel that collapses at the bottom line.
inwardsDownSel_CollapseBottom(sel, d) ==
    IF hasPartialLineSelection(sel, d)
    THEN LET r == fullLineRange(sel, d)
         IN  buildSelection(d, r[1], r[2], FALSE)
    ELSE LET r == fullLineRange(sel, d)
         IN  IF r[2] - r[1] <= 1
             THEN LET caret == posLineStart(d, r[2] - 1)
                  IN  Selection(caret, caret)
             ELSE buildSelection(d, r[1], r[2] - 1, FALSE)

inwardsDownSel(sel, d) ==
    IF hasPartialLineSelection(sel, d)
    THEN LET r == fullLineRange(sel, d)
         IN  buildSelection(d, r[1], r[2], FALSE)
    ELSE LET r == fullLineRange(sel, d)
             top == r[1]
             botEx == r[2]
             size == botEx - top
         IN  IF size <= 1
             THEN LET caret == posLineStart(d, top)
                  IN  Selection(caret, caret)
             ELSE buildSelection(d, top, botEx - 1, FALSE)

\* A variant of outwardsUpSel that resolves a caret like a selection and
\* steps it in the same call.
outwardsUpSel_CaretSteps(sel, d) ==
    IF hasPartialLineSelection(sel, d)
    THEN LET r == fullLineRange(sel, d)
         IN  buildSelection(d, r[1], r[2], TRUE)
    ELSE LET r == fullLineRange(sel, d)
         IN  buildSelection(d, IF r[1] > 0 THEN r[1] - 1 ELSE r[1],
                            IF isEmpty(sel) THEN sel.active.line + 1 ELSE r[2], TRUE)

outwardsUpSel(sel, d) ==
    IF isEmpty(sel)
    THEN LET L == sel.active.line
         IN  buildSelection(d, L, L + 1, TRUE)
    ELSE IF hasPartialLineSelection(sel, d)
    THEN LET r == fullLineRange(sel, d)
         IN  buildSelection(d, r[1], r[2], TRUE)
    ELSE LET r == fullLineRange(sel, d)
             top == IF r[1] > 0 THEN r[1] - 1 ELSE r[1]
             botEx == r[2]
         IN  buildSelection(d, top, botEx, TRUE)

\* A variant of inwardsUpSel that trims the bottom line instead of the top.
inwardsUpSel_TrimBottom(sel, d) ==
    IF hasPartialLineSelection(sel, d)
    THEN LET r == fullLineRange(sel, d)
         IN  buildSelection(d, r[1], r[2], TRUE)
    ELSE LET r == fullLineRange(sel, d)
         IN  IF r[2] - r[1] <= 1
             THEN LET caret == posLineStart(d, clamp(r[2] - 1, 0, lineCount(d) - 1))
                  IN  Selection(caret, caret)
             ELSE buildSelection(d, r[1], r[2] - 1, TRUE)

inwardsUpSel(sel, d) ==
    IF hasPartialLineSelection(sel, d)
    THEN LET r == fullLineRange(sel, d)
         IN  buildSelection(d, r[1], r[2], TRUE)
    ELSE LET r == fullLineRange(sel, d)
             top == r[1]
             botEx == r[2]
             size == botEx - top
         IN  IF size <= 1
             THEN LET bottomLine == clamp(botEx - 1, 0, lineCount(d) - 1)
                      caret == posLineStart(d, bottomLine)
                  IN  Selection(caret, caret)
             ELSE buildSelection(d, top + 1, botEx, TRUE)

\* The function the command named c maps over the selections.
transform(c, sel, d) ==
    CASE c = "outwardsDown" -> outwardsDownSel(sel, d)
      [] c = "inwardsDown"  -> inwardsDownSel(sel, d)
      [] c = "outwardsUp"   -> outwardsUpSel(sel, d)
      [] c = "inwardsUp"    -> inwardsUpSel(sel, d)

\* A variant of mapSelections that gives every cursor the first one's result.
mapSelections_FirstOnly(c, sels, d) ==
    [i \in DOMAIN sels |-> transform(c, sels[1], d)]

\* editor.selections.map(sel => ...)
mapSelections(c, sels, d) ==
    [i \in DOMAIN sels |-> transform(c, sels[i], d)]

----------------------------------------------------------------------------
(* The line numbers a command passes to doc.lineAt, which throws for a     *)
(* number outside [0, lineCount).  A read that throws ends the command:    *)
(* the reads that would have followed it are not listed.                   *)

LineNumbers(d) == 0..(lineCount(d) - 1)

\* doc.lineAt(pMin.line) of hasPartialLineSelection
hasPartialLineSelectionReads(sel, d) ==
    IF ~isEmpty(sel) /\ pMinOf(sel).character = 0 /\ pMinOf(sel).line = pMaxOf(sel).line
    THEN {pMinOf(sel).line}
    ELSE {}

\* doc.lineAt(doc.lineCount - 1) of posEndForExclusiveLine
posEndForExclusiveLineReads(d, exclLine) ==
    IF exclLine < lineCount(d) THEN {} ELSE {lineCount(d) - 1}

\* The reads of the callback of command c for selection sel: those of the
\* classification and then, unless it threw or the callback collapses the
\* selection, those of buildSelection.
lineAtReads(c, sel, d) ==
    IF c \in {"outwardsDown", "outwardsUp"} /\ isEmpty(sel)
    THEN posEndForExclusiveLineReads(d, sel.active.line + 1)
    ELSE LET first == hasPartialLineSelectionReads(sel, d)
         IN  IF ~(first \subseteq LineNumbers(d))
             THEN first
             ELSE LET r == fullLineRange(sel, d)
                      partial == hasPartialLineSelection(sel, d)
                      botEx ==
                          CASE partial -> r[2]
                            [] ~partial /\ c = "outwardsDown" ->
                                   IF r[2] < lineCount(d) THEN r[2] + 1 ELSE r[2]
                            [] ~partial /\ c = "inwardsDown" -> r[2] - 1
                            [] OTHER -> r[2]
                      collapses ==
                          ~partial /\ c \in {"inwardsDown", "inwardsUp"} /\ r[2] - r[1] <= 1
                  IN  IF collapses
                      THEN first
                      ELSE first \cup posEndForExclusiveLineReads(d, botEx)

\* The command c throws when one of its callbacks reads a line that is not
\* in the document.
Throws(c, sels, d) ==
    \E i \in DOMAIN sels : ~(lineAtReads(c, sels[i], d) \subseteq LineNumbers(d))

----------------------------------------------------------------------------
(* The editor: documents, valid positions, and the dispatch of a command.  *)

Commands == {"outwardsUp", "inwardsUp", "outwardsDown", "inwardsDown"}

DocsUpTo(lines, len) == UNION {[1..n -> 0..len] : n \in 1..lines}

Positions(d) ==
    UNION {{Position(l, c) : c \in 0..lineLength(d, l)} : l \in 0..(lineCount(d) - 1)}

Selections(d) == {Selection(a, b) : a \in Positions(d), b \in Positions(d)}

AllNonEmptyLines(d) == \A n \in 0..(lineCount(d) - 1) : lineLength(d, n) > 0

\* The command after which the four-command sequence stands at stage k + 1.
ScenarioNext(k) == IF k < 2 THEN "outwardsDown" ELSE "inwardsUp"

ScenarioStarts(c) ==
    /\ c = "outwardsDown"
    /\ isEmpty(selections[1])
    /\ AllNonEmptyLines(doc)
    /\ selections[1].active.line + 2 < lineCount(doc)

\* Runs of one command are counted up to a length that lets a selection of
\* every line of the document be snapped and then shrink to a caret, or a
\* caret grow to the whole document.
MaxRun(d) == lineCount(d) + 1

\* What the properties remember of a command c: the selections it read, its
\* name, the selections before the run of equal commands it belongs to, and
\* how far the four-command sequence has got.
Observe(c) ==
    /\ prev' = selections
    /\ cmd' = c
    /\ orig' = IF cmd = c THEN orig ELSE selections
    /\ runLen' = IF cmd = c THEN Min(runLen + 1, MaxRun(doc)) ELSE 1
    /\ IF stage \in 1..3 /\ c = ScenarioNext(stage)
       THEN stage' = stage + 1 /\ scenL' = scenL
       ELSE IF ScenarioStarts(c)
       THEN stage' = 1 /\ scenL' = selections[1].active.line
       ELSE stage' = 0 /\ scenL' = 0

\* Outwards Down: expand downward by 1 line (pin top)
outwardsDown ==
    /\ IF Throws("outwardsDown", selections, doc)
       THEN threw' = TRUE /\ UNCHANGED selections
       ELSE threw' = FALSE /\ selections' = mapSelections("outwardsDown", selections, doc)
    /\ Observe("outwardsDown")
    /\ UNCHANGED doc

\* Inwards Down: shrink from bottom by 1 line (pin top)
inwardsDown ==
    /\ IF Throws("inwardsDown", selections, doc)
       THEN threw' = TRUE /\ UNCHANGED selections
       ELSE threw' = FALSE /\ selections' = mapSelections("inwardsDown", selections, doc)
    /\ Observe("inwardsDown")
    /\ UNCHANGED doc

\* Outwards Up: expand upward by 1 line (pin bottom)
outwardsUp ==
    /\ IF Throws("outwardsUp", selections, doc)
       THEN threw' = TRUE /\ UNCHANGED selections
       ELSE threw' = FALSE /\ selections' = mapSelections("outwardsUp", selections, doc)
    /\ Observe("outwardsUp")
    /\ UNCHANGED doc

\* Inwards Up: shrink from top by 1 line (pin bottom)
inwardsUp ==
    /\ IF Throws("inwardsUp", selections, doc)
       THEN threw' = TRUE /\ UNCHANGED selections
       ELSE threw' = FALSE /\ selections' = mapSelections("inwardsUp", selections, doc)
    /\ Observe("inwardsUp")
    /\ UNCHANGED doc

\* Selection s lies before selection t and does not overlap it: the editor
\* merges cursors that overlap.
LiesBefore(s, t) ==
    \/ isBefore(selEnd(s), selStart(t))
    \/ selEnd(s) = selStart(t) /\ ~isEmpty(s) /\ ~isEmpty(t)

RECURSIVE CursorLists(_, _)
\* The lists of n selections of document d, in document order, no two of
\* them overlapping.
CursorLists(d, n) ==
    IF n = 0
    THEN {<<>>}
    ELSE UNION {{Append(l, s) :
                    s \in {t \in Selections(d) :
                              \A i \in DOMAIN l : LiesBefore(l[i], t)}} :
                l \in CursorLists(d, n - 1)}

InitWith(docs, cursors) ==
    /\ doc \in docs
    /\ \E n \in 1..cursors : selections \in CursorLists(doc, n)
    /\ prev = selections
    /\ cmd = "none"
    /\ orig = selections
    /\ stage = 0
    /\ scenL = 0
    /\ runLen = 0
    /\ threw = FALSE

Init == InitWith(DocsUpTo(MaxLines, MaxLen), 1)

InitMulti == InitWith(DocsUpTo(MultiLines, MultiLen), MaxCursors)

\* Documents of no line, or of up to HostileLines lines.
HostileDocs == {<<>>} \cup DocsUpTo(HostileLines, HostileLen)

\* Positions that need not lie in the document: up to one line past its
\* last line and one column past HostileLen.
HostilePositions(d) ==
    {Position(l, c) : l \in 0..lineCount(d), c \in 0..(HostileLen + 1)}

\* One selection between any two such positions.
InitHostile ==
    /\ doc \in HostileDocs
    /\ \E a \in HostilePositions(doc), b \in HostilePositions(doc) :
           selections = <<Selection(a, b)>>
    /\ prev = selections
    /\ cmd = "none"
    /\ orig = selections
    /\ stage = 0
    /\ scenL = 0
    /\ runLen = 0
    /\ threw = FALSE

Next ==
    \/ outwardsDown
    \/ inwardsDown
    \/ outwardsUp
    \/ inwardsUp

Spec == Init /\ [][Next]_vars

SpecMulti == InitMulti /\ [][Next]_vars

SpecHostile == InitHostile /\ [][Next]_vars

----------------------------------------------------------------------------
(* Vocabulary of the properties. *)

UpCommands == {"outwardsUp", "inwardsUp"}

DownCommands == {"outwardsDown", "inwardsDown"}

OutwardCommands == {"outwardsUp", "outwardsDown"}

InwardCommands == {"inwardsUp", "inwardsDown"}

Cursors == DOMAIN selections

lastLine(d) == lineCount(d) - 1

\* The classification of a selection: Partial, and FullLines as the
\* non-empty selections that are not Partial.
IsPartial(sel, d) == hasPartialLineSelection(sel, d)

IsFullLines(sel, d) == ~isEmpty(sel) /\ ~hasPartialLineSelection(sel, d)

\* The last line a non-empty selection holds a character or a line break of.
snapBottom(sel) ==
    IF pMaxOf(sel).character = 0 THEN pMaxOf(sel).line - 1 ELSE pMaxOf(sel).line

\* The whole-line selection of lines [top, botEx), written out in positions.
wholeLines(d, top, botEx, anchorAtEnd) ==
    LET startPos == Position(top, 0)
        endPos == IF botEx < lineCount(d)
                  THEN Position(botEx, 0)
                  ELSE Position(lastLine(d), lineLength(d, lastLine(d)))
    IN  IF anchorAtEnd THEN Selection(endPos, startPos) ELSE Selection(startPos, endPos)

\* The range size the resolver computes for a selection.
rangeSize(sel, d) == fullLineRange(sel, d)[2] - fullLineRange(sel, d)[1]

\* The lines a selection covers: none for a caret.
linesCovered(sel) ==
    IF isEmpty(sel) THEN {} ELSE selStart(sel).line .. snapBottom(sel)

\* The lines a selection or a caret lies on.
linesTouched(sel) ==
    IF isEmpty(sel) THEN {sel.active.line} ELSE linesCovered(sel)

----------------------------------------------------------------------------
(* C1 *)

C2_IdempotentSnap ==
    cmd \in Commands =>
        \A i \in Cursors :
            IsPartial(prev[i], doc) => IsFullLines(selections[i], doc)

(* C3 *)

\* C3 as claimed: after an *Up command with a non-collapsed result the
\* bottom endpoint is on the line it was on before; after a *Down command
\* the top endpoint is on the line it was on before; for every input.
C3_PinInvariant ==
    \A i \in Cursors :
        /\ (cmd \in UpCommands /\ ~isEmpty(selections[i])) =>
               selEnd(selections[i]).line = selEnd(prev[i]).line
        /\ cmd \in DownCommands =>
               selStart(selections[i]).line = selStart(prev[i]).line

\* The inputs whose bottom endpoint a snap moves to column 0 of the next
\* line: a caret, or a Partial selection ending past column 0, on a line
\* that is not the last.
SnapMovesBottom(sel, d) ==
    /\ isEmpty(sel) \/ (IsPartial(sel, d) /\ pMaxOf(sel).character # 0)
    /\ pMaxOf(sel).line < lastLine(d)

\* C3 amended: after a *Down command the top endpoint is on the line it was
\* on before, for every input.  After an *Up command with a non-collapsed
\* result the bottom endpoint is on the line it was on before when the
\* input was FullLines, ended at column 0 or ended on the last line; for a
\* caret or a Partial selection ending past column 0, on a line that is not
\* the last, it is on the next line.
C3_PinAmended ==
    \A i \in Cursors :
        /\ (cmd \in UpCommands /\ ~isEmpty(selections[i])) =>
               selEnd(selections[i]).line =
                   IF SnapMovesBottom(prev[i], doc)
                   THEN selEnd(prev[i]).line + 1
                   ELSE selEnd(prev[i]).line
        /\ cmd \in DownCommands =>
               selStart(selections[i]).line = selStart(prev[i]).line

\* outwardsUp has grown a two-line FullLines selection by the line above
\* and left its bottom endpoint where it was.
C3_Witness ==
    /\ cmd = "outwardsUp"
    /\ IsFullLines(prev[1], doc)
    /\ selStart(prev[1]).line = 1
    /\ selStart(selections[1]).line = 0
    /\ selEnd(selections[1]) = selEnd(prev[1])

(* C4 *)

\* C4: the resolver's range size never shrinks under an outward command,
\* never grows under an inward command, and lies in 0..lineCount.
C4_MonotonicBound ==
    \A i \in Cursors :
        /\ cmd \in OutwardCommands =>
               rangeSize(selections[i], doc) >= rangeSize(prev[i], doc)
        /\ cmd \in InwardCommands =>
               rangeSize(selections[i], doc) <= rangeSize(prev[i], doc)
        /\ rangeSize(selections[i], doc) \in 0..lineCount(doc)

(* C5 *)

\* C5: through a run of inwardsUp (or of inwardsDown) the lines covered
\* stay within the lines covered after the run's first step and within the
\* lines of the selection the run started from, and a caret stays on a
\* line of the selection the run started from.
C5_InwardNeverReverses ==
    cmd \in InwardCommands =>
        \A i \in Cursors :
            /\ linesCovered(selections[i]) \subseteq
                   linesCovered(transform(cmd, orig[i], doc))
            /\ linesCovered(selections[i]) \subseteq linesTouched(orig[i])
            /\ isEmpty(selections[i]) =>
                   selections[i].active.line \in linesTouched(orig[i])

(* C6 *)

\* C6: outwardsDown on a selection whose range reaches the last line
\* leaves bottomExclusive at lineCount and the range size as it was, puts
\* no position on a line >= lineCount, and turns a Partial input into
\* FullLines.
C6_NoOvershoot ==
    cmd = "outwardsDown" =>
        \A i \in Cursors :
            fullLineRange(prev[i], doc)[2] = lineCount(doc) =>
                /\ fullLineRange(selections[i], doc)[2] = lineCount(doc)
                /\ rangeSize(selections[i], doc) = rangeSize(prev[i], doc)
                /\ selections[i].anchor.line < lineCount(doc)
                /\ selections[i].active.line < lineCount(doc)
                /\ IsPartial(prev[i], doc) => IsFullLines(selections[i], doc)

(* C7 *)

\* The selections of exactly line L: from column 0 of L to column 0 of
\* L + 1 or, for the last line, to the end of the document.
CoversOneLine(sel, d, L) ==
    /\ selStart(sel) = Position(L, 0)
    /\ \/ L < lastLine(d) /\ selEnd(sel) = Position(L + 1, 0)
       \/ L = lastLine(d) /\ selEnd(sel) = lineEnd(d, L)

\* C7: inwardsDown on a selection of exactly one full line L returns the
\* caret at column 0 of line L.
C7_CollapseThenCaret ==
    cmd = "inwardsDown" =>
        \A i \in Cursors : \A L \in 0..lastLine(doc) :
            CoversOneLine(prev[i], doc, L) =>
                selections[i] = Selection(Position(L, 0), Position(L, 0))

\* inwardsDown has collapsed the selection of a non-empty last line, which
\* is not the first line, to the caret at its start.
C7_Witness ==
    /\ cmd = "inwardsDown"
    /\ lastLine(doc) > 0
    /\ lineLength(doc, lastLine(doc)) > 0
    /\ prev[1] = Selection(Position(lastLine(doc), 0), lineEnd(doc, lastLine(doc)))
    /\ selections[1] = Selection(Position(lastLine(doc), 0), Position(lastLine(doc), 0))

(* C8 *)

\* C8: in a document of non-empty lines, from a caret on line L with
\* L + 2 < lineCount, outwardsDown, outwardsDown, inwardsUp, inwardsUp
\* give in turn lines [L, L + 1), lines [L, L + 2) anchored at column 0 of
\* L, lines [L + 1, L + 2), and the caret at column 0 of line L + 1.
C8_Scenario ==
    /\ stage = 1 =>
           /\ selStart(selections[1]) = Position(scenL, 0)
           /\ selEnd(selections[1]) = Position(scenL + 1, 0)
    /\ stage = 2 =>
           selections[1] = Selection(Position(scenL, 0), Position(scenL + 2, 0))
    /\ stage = 3 =>
           /\ selStart(selections[1]) = Position(scenL + 1, 0)
           /\ selEnd(selections[1]) = Position(scenL + 2, 0)
    /\ stage = 4 =>
           selections[1] = Selection(Position(scenL + 1, 0), Position(scenL + 1, 0))

\* The four commands have run in that order from a caret.
C8_Witness ==
    /\ stage = 4
    /\ cmd = "inwardsUp"
    /\ isEmpty(selections[1])
    /\ selections[1].active.line = scenL + 1

(* C9 *)

\* C9: the replacement list is as long as the list the command read, and
\* its i-th element is what the command returns for the i-th selection
\* alone against the same document.
C9_MultiCursor ==
    cmd \in Commands =>
        /\ Len(selections) = Len(prev)
        /\ \A i \in Cursors :
               selections[i] = mapSelections(cmd, <<prev[i]>>, doc)[1]

\* Two cursors with different selections have got different results.
C9_Witness ==
    /\ cmd = "inwardsUp"
    /\ Len(prev) = 2
    /\ prev[1] # prev[2]
    /\ selections[1] # selections[2]
    /\ isEmpty(selections[1])
    /\ ~isEmpty(selections[2])

(* C10 *)

\* C10: for every selection a command resolves, fullLineRange returns
\* (top, bottomExclusive) with 0 <= top < bottomExclusive <= lineCount.
C10_ResolverRange ==
    cmd \in Commands =>
        \A i \in Cursors :
            LET r == fullLineRange(prev[i], doc)
            IN  0 <= r[1] /\ r[1] < r[2] /\ r[2] <= lineCount(doc)

(* C11 *)

\* The non-empty selections that start at column 0 and end at column 0 of
\* a later line or at the end of the document.
AlignedToLines(sel, d) ==
    /\ ~isEmpty(sel)
    /\ selStart(sel).character = 0
    /\ \/ selEnd(sel).character = 0 /\ selEnd(sel).line > selStart(sel).line
       \/ selEnd(sel) = lineEnd(d, lastLine(d))

\* C11: a selection from column 0 to column 0 of a later line or to the
\* end of the document is classified FullLines, so that outwardsUp steps
\* it: with a line above it, the result starts one line higher.
C11_EndOfDocumentIsFullLines ==
    cmd \in Commands =>
        \A i \in Cursors :
            AlignedToLines(prev[i], doc) =>
                /\ ~hasPartialLineSelection(prev[i], doc)
                /\ (cmd = "outwardsUp" /\ selStart(prev[i]).line > 0) =>
                       selStart(selections[i]).line = selStart(prev[i]).line - 1

(* C12 *)

\* The selections of exactly line L, ending at column 0 of line L + 1, at
\* the end of the document, or at the end of line L's text.
CoversOneLineOrText(sel, d, L) ==
    \/ CoversOneLine(sel, d, L)
    \/ selStart(sel) = Position(L, 0) /\ selEnd(sel) = lineEnd(d, L)

\* C12: inwardsUp on a selection of exactly one full line L returns the
\* caret at column 0 of line L itself, never of line L - 1.
C12_InwardsUpCollapse ==
    cmd = "inwardsUp" =>
        \A i \in Cursors : \A L \in 0..lastLine(doc) :
            CoversOneLineOrText(prev[i], doc, L) =>
                selections[i] = Selection(Position(L, 0), Position(L, 0))

(* C13 *)

\* C13 as claimed: an outward command on a caret on line L returns the
\* whole-line selection of line L alone, anchored at the start by
\* outwardsDown and at the end by outwardsUp, and that selection is not
\* empty.
C13_OutwardOnCaret ==
    cmd \in OutwardCommands =>
        \A i \in Cursors :
            isEmpty(prev[i]) =>
                /\ selections[i] =
                       wholeLines(doc, prev[i].active.line, prev[i].active.line + 1,
                                  cmd = "outwardsUp")
                /\ ~isEmpty(selections[i])

\* C13 amended: an outward command on a caret on line L returns the
\* whole-line selection of line L alone, anchored at the start by
\* outwardsDown and at the end by outwardsUp; that selection is not empty
\* unless L is the last line and has no text, where it is the caret at
\* column 0 of L.
C13_OutwardOnCaretAmended ==
    cmd \in OutwardCommands =>
        \A i \in Cursors :
            isEmpty(prev[i]) =>
                LET L == prev[i].active.line
                IN  /\ selections[i] = wholeLines(doc, L, L + 1, cmd = "outwardsUp")
                    /\ isEmpty(selections[i]) <=>
                           (L = lastLine(doc) /\ lineLength(doc, L) = 0)
                    /\ isEmpty(selections[i]) =>
                           selections[i] = Selection(Position(L, 0), Position(L, 0))

\* outwardsUp has turned a caret inside line 0 of a longer document into
\* the selection of line 0, anchored at column 0 of line 1.
C13_Witness ==
    /\ cmd = "outwardsUp"
    /\ prev[1] = Selection(Position(0, 1), Position(0, 1))
    /\ lineCount(doc) > 1
    /\ selections[1] = Selection(Position(1, 0), Position(0, 0))

(* C14 *)

\* C14: every non-empty selection a command returns is the whole-line
\* selection of some range [top, bottomExclusive): it starts at column 0 of
\* line top and ends at column 0 of line bottomExclusive, or at the end of
\* the last line's text when bottomExclusive = lineCount; the *Up commands
\* anchor it at the end, the *Down commands at the start, whichever way the
\* input was anchored.
C14_AnchorOrientation ==
    cmd \in Commands =>
        \A i \in Cursors :
            ~isEmpty(selections[i]) =>
                /\ \E top \in 0..lastLine(doc) : \E botEx \in 1..lineCount(doc) :
                       /\ top < botEx
                       /\ selections[i] = wholeLines(doc, top, botEx, cmd \in UpCommands)
                /\ cmd \in UpCommands =>
                       /\ selections[i].anchor = selEnd(selections[i])
                       /\ selections[i].active = selStart(selections[i])
                /\ cmd \in DownCommands =>
                       /\ selections[i].anchor = selStart(selections[i])
                       /\ selections[i].active = selEnd(selections[i])

\* inwardsUp has returned a selection anchored at its end for an input
\* that was anchored at its start.
C14_Witness ==
    /\ cmd = "inwardsUp"
    /\ ~isEmpty(prev[1])
    /\ prev[1].anchor = selStart(prev[1])
    /\ ~isEmpty(selections[1])
    /\ selections[1].anchor = selEnd(selections[1])

(* C15 *)

\* C15: a run of inwardsDown (or of inwardsUp) has reached an empty
\* selection once it is one command longer than the number of lines the
\* selection it started from lay on, and a further command of the run
\* leaves that caret as it is.
C15_InwardTerminates ==
    cmd \in InwardCommands =>
        \A i \in Cursors :
            /\ runLen >= 1 + Cardinality(linesTouched(orig[i])) =>
                   isEmpty(selections[i])
            /\ (runLen >= 2 /\ isEmpty(prev[i])) =>
                   /\ selections[i] = prev[i]
                   /\ selections[i].active.character = 0

(* C16 *)

\* A position inside the document; of a document of no line, the start of
\* its one implicit empty line.
InsideDocument(p, d) ==
    IF lineCount(d) = 0
    THEN p = Position(0, 0)
    ELSE /\ p.line \in LineNumbers(d)
         /\ p.character \in 0..lineLength(d, p.line)

\* C16: whatever the document, one of no line included, and whatever the
\* selection, one past the last line included, a command completes without
\* throwing, reads no line outside [0, lineCount), and returns positions
\* inside the document.
C16_NoFailure ==
    cmd \in Commands =>
        /\ ~threw
        /\ \A i \in Cursors :
               /\ lineAtReads(cmd, prev[i], doc) \subseteq LineNumbers(doc)
               /\ InsideDocument(selections[i].anchor, doc)
               /\ InsideDocument(selections[i].active, doc)

----------------------------------------------------------------------------
(* C17 *)

\* The lines of which a selection holds at least one character of text.
linesWithSelectedText(sel, d) ==
    {l \in LineNumbers(d) :
        \E c \in 0..(lineLength(d, l) - 1) :
            /\ ~isBefore(Position(l, c), selStart(sel))
            /\ isBefore(Position(l, c), selEnd(sel))}

\* A selection covers a line fully when it holds the whole text of the line.
coversLine(sel, d, l) ==
    /\ ~isBefore(Position(l, 0), selStart(sel))
    /\ ~isBefore(selEnd(sel), Position(l, lineLength(d, l)))

\* C17: an outward command never deselects: every line of which the
\* non-empty input selection holds a character is fully covered by the
\* selection outwardsUp or outwardsDown returns.
C17_OutwardNeverDeselects ==
    cmd \in OutwardCommands =>
        \A i \in Cursors :
            ~isEmpty(prev[i]) =>
                \A l \in linesWithSelectedText(prev[i], doc) :
                    coversLine(selections[i], doc, l)

----------------------------------------------------------------------------
(* C18 *)

\* The selection of cursor i has its top line on line 0.
AtTop(sel) == selStart(sel).line = 0

\* The selection of cursor i ends at the end of the document, where
\* bottomExclusive is lineCount.
AtBottom(sel, d) == selEnd(sel) = Position(lastLine(d), lineLength(d, lastLine(d)))

\* C18: repeated outward commands reach the document boundary and stay
\* there.  A run of outwardsUp that no longer changes the selection has
\* brought its top line to 0, a run of outwardsDown that no longer changes
\* it has brought its end to the end of the document; and a selection a run
\* has brought to the boundary is left unchanged by the next invocation.
C18_OutwardReachesBoundary ==
    runLen >= 2 =>
        \A i \in Cursors :
            /\ (cmd = "outwardsUp" /\ selections[i] = prev[i]) => AtTop(selections[i])
            /\ (cmd = "outwardsDown" /\ selections[i] = prev[i]) =>
                   AtBottom(selections[i], doc)
            /\ (cmd = "outwardsUp" /\ AtTop(prev[i])) => selections[i] = prev[i]
            /\ (cmd = "outwardsDown" /\ AtBottom(prev[i], doc)) =>
                   selections[i] = prev[i]

----------------------------------------------------------------------------
(* C19 *)

\* A FullLines selection anchored at its start that does not reach the end
\* of the document: the lines [top, botEx) it covers have botEx < lineCount.
GrowsDown(sel, d) ==
    /\ IsFullLines(sel, d)
    /\ sel.anchor = selStart(sel)
    /\ snapBottom(sel) + 1 < lineCount(d)

\* A FullLines selection anchored at its end whose top line is not line 0.
GrowsUp(sel, d) ==
    /\ IsFullLines(sel, d)
    /\ sel.anchor = selEnd(sel)
    /\ selStart(sel).line > 0

\* C19: outward and inward are a round trip.  When outwardsDown has just
\* been applied to a FullLines selection anchored at its start with
\* botEx < lineCount, inwardsDown returns that selection, anchor and active
\* as they were; when outwardsUp has just been applied to a FullLines
\* selection anchored at its end with top > 0, inwardsUp returns it.
\* Left out is the selection that ends at the start of an empty last line:
\* growing it to the end of the document gives the same two positions, so
\* no command could tell the grown selection from the original.
C19_RoundTrip ==
    [][\A i \in Cursors :
          /\ (/\ cmd = "outwardsDown"
              /\ GrowsDown(prev[i], doc)
              /\ selEnd(prev[i]) # lineEnd(doc, lastLine(doc))
              /\ cmd' = "inwardsDown") =>
                 selections'[i] = prev[i]
          /\ (cmd = "outwardsUp" /\ GrowsUp(prev[i], doc) /\ cmd' = "inwardsUp") =>
                 selections'[i] = prev[i]]_vars

----------------------------------------------------------------------------
(* C20 *)

\* A position of the document: 0 <= line < lineCount and
\* 0 <= character <= the length of that line.
ValidPosition(p, d) ==
    /\ p.line \in LineNumbers(d)
    /\ p.character \in 0..lineLength(d, p.line)

\* C20: in a document of at least one line, after any sequence of the four
\* commands on a selection of valid positions, every anchor and every
\* active position is a position of the document, and every selection a
\* command returned that is not collapsed starts at column 0.
C20_ValidPositions ==
    \A i \in Cursors :
        /\ ValidPosition(selections[i].anchor, doc)
        /\ ValidPosition(selections[i].active, doc)
        /\ (cmd \in Commands /\ ~isEmpty(selections[i])) =>
               selStart(selections[i]).character = 0

\* A command has changed the selection into one that runs from column 0 to
\* the end of the text of a non-empty last line.
C20_Witness ==
    /\ cmd \in Commands
    /\ selections[1] # prev[1]
    /\ ~isEmpty(selections[1])
    /\ lineLength(doc, lastLine(doc)) > 0
    /\ selEnd(selections[1]) = lineEnd(doc, lastLine(doc))

====
